---- MODULE Spec2Model ----
(***************************************************************************)
(* A model of tide's Request (src/src/request.rs): a facade over an        *)
(* http_service request (method, uri, version, headers, body stream,       *)
(* extension map), the route-parameter tables and the cookie jar.          *)
(*                                                                         *)
(* Bytes are integers 0..255.  A String is the sequence of its UTF-8       *)
(* bytes.  Every call of a Request method is one action; its return value  *)
(* is recorded in last.  A panic ends the handler: no action is enabled  *)
(* once last holds   a panic.                                              *)
(***************************************************************************)
EXTENDS Integers, Sequences, FiniteSets, TLC

\* ---------------------------------------------------------------- bounds
MaxLen == 2          \* longest body
MaxBuf == 2          \* longest buffer handed to poll_read

\* ------------------------------------------------------- byte alphabets
\* '1', 'a', '=', the lead byte 0xC3 and the continuation byte 0xA9
BodyAlphabet == {49, 97, 61, 195, 169}

RECURSIVE SeqsUpTo(_, _)
SeqsUpTo(S, n) ==
  IF n = 0 THEN {<<>>}
  ELSE LET shorter == SeqsUpTo(S, n - 1)
       IN  shorter \cup {Append(s, x) : s \in shorter, x \in S}

Bodies == SeqsUpTo(BodyAlphabet, MaxLen)

Min(a, b) == IF a < b THEN a ELSE b

IsPrefix(s, t) == Len(s) <= Len(t) /\ SubSeq(t, 1, Len(s)) = s

\* ---------------------------------------------------------------- results
\* Every return value has the same shape: tag is "Ok" (also Some), "Err",
\* "None", "Pending" or "Panic"; kind is the error's text; val is the
\* payload.
Res(tag, kind, val) == [tag |-> tag, kind |-> kind, val |-> val]
Ok(v)       == Res("Ok", "", v)
Err(kind)   == Res("Err", kind, <<>>)
NoneRes     == Res("None", "", <<>>)
Pending     == Res("Pending", "", <<>>)
Panic(msg)  == Res("Panic", msg, <<>>)
\* A call: the method, its name argument, its numeric argument (the length
\* of poll_read's buffer), the body cursor when it began, and what it returned.
Call(op, arg, n, from, res) ==
  [op |-> op, arg |-> arg, n |-> n, from |-> from, res |-> res]
NoCall == Call("", "", 0, 0, NoneRes)

\* ------------------------------------------------------------- decoders
\* String::from_utf8: the well-formed UTF-8 byte sequences of the Unicode
\* standard (table 3-7), as core::str::from_utf8 accepts them.
IsCont(b) == b >= 128 /\ b <= 191

RECURSIVE ValidUtf8From(_, _)
ValidUtf8From(b, i) ==
  IF i > Len(b) THEN TRUE
  ELSE LET c == b[i]
           has(k) == i + k <= Len(b)
       IN  IF c < 128 THEN ValidUtf8From(b, i + 1)
           ELSE IF c >= 194 /\ c <= 223
             THEN has(1) /\ IsCont(b[i + 1]) /\ ValidUtf8From(b, i + 2)
           ELSE IF c >= 224 /\ c <= 239
             THEN /\ has(2)
                  /\ IsCont(b[i + 1]) /\ IsCont(b[i + 2])
                  /\ (c = 224 => b[i + 1] >= 160)
                  /\ (c = 237 => b[i + 1] <= 159)
                  /\ ValidUtf8From(b, i + 3)
           ELSE IF c >= 240 /\ c <= 244
             THEN /\ has(3)
                  /\ IsCont(b[i + 1]) /\ IsCont(b[i + 2]) /\ IsCont(b[i + 3])
                  /\ (c = 240 => b[i + 1] >= 144)
                  /\ (c = 244 => b[i + 1] <= 143)
                  /\ ValidUtf8From(b, i + 4)
           ELSE FALSE

ValidUtf8(b) == ValidUtf8From(b, 1)

FromUtf8(b) == IF ValidUtf8(b) THEN Ok(b) ELSE Err("InvalidData")

\* serde_json::from_slice::<u8>: optional whitespace, one JSON number that
\* is an unsigned integer without a leading zero and fits 8 bits, optional
\* whitespace, end of input.  The empty input is an error (EOF while
\* parsing a value).
JsonWs == {32, 9, 10, 13}
U8Max == 255

RECURSIVE SkipWhile(_, _, _)
SkipWhile(b, i, S) ==
  IF i <= Len(b) /\ b[i] \in S THEN SkipWhile(b, i + 1, S) ELSE i

RECURSIVE DigitsValue(_, _, _, _)
DigitsValue(b, i, j, acc) ==
  IF i >= j THEN acc
  ELSE DigitsValue(b, i + 1, j, Min(acc * 10 + (b[i] - 48), U8Max + 1))

ParseJsonU8(b) ==
  LET i == SkipWhile(b, 1, JsonWs)
      j == SkipWhile(b, i, 48 .. 57)
      k == SkipWhile(b, j, JsonWs)
      v == DigitsValue(b, i, j, 0)
  IN  IF /\ j > i
         /\ (b[i] = 48 => j = i + 1)
         /\ k = Len(b) + 1
         /\ v <= U8Max
      THEN Ok(<<v>>)
      ELSE Err("InvalidData")

\* serde_qs::from_bytes / from_str into a struct with the one field a:
\* FormOpt has a: Option<String>, FormReq has a: String.  The input must be
\* UTF-8; it is cut at '&' into pairs and each pair at its first '=' into
\* key and value; a key given twice is an error; a key that is no field is
\* ignored; a missing Option field is None and a missing String field is
\* an error.  The decoded struct is <<>> (a absent) or <<value>>.
FormTypes == {"FormOpt", "FormReq"}
Amp == 38
Eq == 61
KeyA == <<97>>

RECURSIVE IndexOf(_, _, _)
IndexOf(b, c, i) ==
  IF i > Len(b) THEN 0 ELSE IF b[i] = c THEN i ELSE IndexOf(b, c, i + 1)

RECURSIVE SplitPairs(_)
SplitPairs(b) ==
  LET i == IndexOf(b, Amp, 1)
  IN  IF i = 0 THEN <<b>>
      ELSE <<SubSeq(b, 1, i - 1)>> \o SplitPairs(SubSeq(b, i + 1, Len(b)))

PairKey(p) ==
  LET i == IndexOf(p, Eq, 1) IN IF i = 0 THEN p ELSE SubSeq(p, 1, i - 1)
PairValue(p) ==
  LET i == IndexOf(p, Eq, 1) IN IF i = 0 THEN <<>> ELSE SubSeq(p, i + 1, Len(p))

QsDecode(T, b) ==
  LET pairs == SplitPairs(b)
      as    == {i \in 1 .. Len(pairs) : PairKey(pairs[i]) = KeyA}
  IN  IF ~ValidUtf8(b) THEN Err("invalid utf-8")
      ELSE IF Cardinality(as) > 1 THEN Err("multiple values for one key")
      ELSE IF as = {} THEN
        IF T = "FormReq" THEN Err("missing field a") ELSE Ok(<<>>)
      ELSE Ok(<<PairValue(pairs[CHOOSE i \in as : TRUE])>>)

\* ------------------------------------------------------------------ state
VARIABLES
  body,          \* the bytes the body stream carries
  avail,         \* how many of them the transport has handed over so far
  pos,           \* the body cursor: how many have been read
  ended,         \* the stream has reported end-of-data
  faulty,        \* the stream may fail a read with an I/O error
  method,        \* request.method()
  version,       \* request.version()
  uri_query,     \* request.uri().query(): <<>> is None, <<q>> is Some(q)
  headers,       \* request.headers(): name -> sequence of values
  ext,           \* request.extensions(): a set of <<type, value>> entries
  route_params,  \* Vec<Params>, outermost first
  jar,           \* the CookieJar behind CookieData.content: name -> value
  readers,       \* the requests that hold a read guard of the jar's RwLock
  cookieCall,    \* per request: the cookie(name) call in progress, if any
  panicked,      \* the handler of this request has panicked
  last,          \* the last call that returned, with its return value
  hist           \* history of the calls so far (not program state)

streamVars == <<body, avail, pos, ended, faulty>>
metaVars   == <<method, version, uri_query, headers>>
cookieVars == <<jar, readers, cookieCall>>
vars == <<body, avail, pos, ended, faulty, method, version, uri_query,
          headers, ext, route_params, jar, readers, cookieCall, panicked,
          last, hist>>

\* The requests that share the jar; request 1 is the one modelled in full.
NReqs == 2
Reqs == 1 .. NReqs

\* This request's handler is running and is not inside a call.
Alive == ~panicked /\ cookieCall[1] = ""

\* A call of this request returns, or panics.
Return(c) == last' = c /\ panicked' = (c.res.tag = "Panic")

Sat(n) == Min(n + 1, 2)

\* ------------------------------------------------------------ body stream
\* The body stream (http_service::Body) as request.rs uses it: a read
\* hands over bytes that have arrived, is pending when none has and more
\* are to come, and reports end-of-data after the last one; a faulty
\* stream may fail any read made before it has reported end-of-data.
\* Once it has reported end-of-data it keeps doing so (lines 190-191).
IoErr == Err("Io")

\* A stream whose reads leave the cursor where it was.
StreamReadPeeks(n) ==
  IF pos < avail
    THEN {[res |-> Ok(SubSeq(body, pos + 1, pos + k)), pos |-> pos,
           ended |-> ended] : k \in 1 .. Min(n, avail - pos)}
  ELSE IF avail < Len(body)
    THEN {[res |-> Pending, pos |-> pos, ended |-> ended]}
  ELSE {[res |-> Ok(<<>>), pos |-> pos, ended |-> TRUE]}

\* Pin::new(this.request.body_mut()).poll_read(cx, buf) with Len(buf) = n:
\* the outcomes <<result, cursor after, ended after>>.
StreamRead(n) ==
  (IF pos < avail
     THEN {[res |-> Ok(SubSeq(body, pos + 1, pos + k)), pos |-> pos + k,
            ended |-> ended] : k \in 1 .. Min(n, avail - pos)}
   ELSE IF avail < Len(body)
     THEN {[res |-> Pending, pos |-> pos, ended |-> ended]}
   ELSE {[res |-> Ok(<<>>), pos |-> pos, ended |-> TRUE]})
  \cup
  (IF faulty /\ ~ended
     THEN {[res |-> IoErr, pos |-> pos, ended |-> ended]}
   ELSE {})

\* A drain that returns the bytes and leaves them in the stream.
ReadToEndKeepsBody ==
  IF avail = Len(body)
    THEN {[res |-> Ok(SubSeq(body, pos + 1, Len(body))), pos |-> pos,
           ended |-> ended]}
  ELSE {}

\* body_mut().read_to_end(&mut buf).await: reads until end-of-data and
\* returns everything from the cursor on; it returns only when the whole
\* body has arrived.  A read that fails ends it with the error, after the
\* cursor has passed the bytes already taken into buf.
ReadToEnd ==
  (IF avail = Len(body)
     THEN {[res |-> Ok(SubSeq(body, pos + 1, Len(body))), pos |-> Len(body),
            ended |-> TRUE]}
   ELSE {})
  \cup
  (IF faulty /\ ~ended
     THEN {[res |-> IoErr, pos |-> k, ended |-> ended] : k \in pos .. avail}
   ELSE {})

\* body_bytes that reports an empty body as an error.
BodyBytesRejectsEmpty(r) == IF r = Ok(<<>>) THEN Err("UnexpectedEof") ELSE r

\* lines 216-218: buf is local; on an error the ? operator returns the
\* error and buf is dropped.
BodyBytesResult(r) == r

\* line 251-252
BodyStringResult(r) == IF r.tag = "Ok" THEN FromUtf8(r.val) ELSE r

\* body_json that decodes an empty body as the default value.
BodyJsonDefaultsOnEmpty(r) ==
  IF r.tag # "Ok" THEN r
  ELSE IF r.val = <<>> THEN Ok(<<0>>) ELSE ParseJsonU8(r.val)

\* line 265-266, with T = u8
BodyJsonResult(r) == IF r.tag = "Ok" THEN ParseJsonU8(r.val) ELSE r

\* line 285-295
BodyFormResult(T, r) ==
  IF r.tag # "Ok" THEN Err("Other: Io")
  ELSE LET d == QsDecode(T, r.val)
       IN  IF d.tag = "Ok" THEN d ELSE Err("Other: could not decode form")

IsIoErr(r) == r.tag = "Err" /\ r.kind \in {"Io", "Other: Io"}
IsDecodeErr(r) == r.tag = "Err" /\ ~IsIoErr(r)
Helpers == {"body_bytes", "body_string", "body_json", "body_form"}
Decoders == Helpers \ {"body_bytes"}

\* One of body_bytes, body_string, body_json, body_form: drain, then map
\* what the drain returned with F.
Drained == {o.res : o \in ReadToEnd}

BodyCall(op, arg, F) ==
  /\ Alive
  /\ \E o \in ReadToEnd :
       LET r == F[o.res]
       IN  /\ pos' = o.pos
           /\ ended' = o.ended
           /\ Return(Call(op, arg, 0, pos, r))
           /\ hist' = [hist EXCEPT
                 !.nBytes = IF op = "body_bytes" THEN Sat(@) ELSE @,
                 !.nHelpers = Sat(@),
                 !.delivered = IF op = "body_bytes" /\ r.tag = "Ok"
                                 THEN @ \o r.val ELSE @,
                 !.decoderUsed = @ \/ op \in Decoders,
                 !.decodeFailed = @ \/ IsDecodeErr(r),
                 !.ioFailed = @ \/ IsIoErr(r),
                 !.drainFailed = @ \/ IsIoErr(r)]
  /\ UNCHANGED <<body, avail, faulty, metaVars, ext, route_params, cookieVars>>

BodyBytes ==
  BodyCall("body_bytes", "", [r \in Drained |-> BodyBytesResult(r)])
BodyString ==
  BodyCall("body_string", "", [r \in Drained |-> BodyStringResult(r)])
BodyJson ==
  BodyCall("body_json", "u8", [r \in Drained |-> BodyJsonResult(r)])
BodyForm ==
  \E T \in FormTypes :
    BodyCall("body_form", T, [r \in Drained |-> BodyFormResult(T, r)])

\* impl Read for Request: poll_read (lines 309-318)
PollRead ==
  /\ Alive
  /\ \E n \in 1 .. MaxBuf : \E o \in StreamRead(n) :
       /\ pos' = o.pos
       /\ ended' = o.ended
       /\ Return(Call("poll_read", "", n, pos, o.res))
       /\ hist' = [hist EXCEPT
             !.delivered = IF o.res.tag = "Ok" THEN @ \o o.res.val ELSE @,
             !.ioFailed = @ \/ IsIoErr(o.res)]
  /\ UNCHANGED <<body, avail, faulty, metaVars, ext, route_params, cookieVars>>

\* The transport hands over the next byte of the body.
Arrive ==
  /\ Alive
  /\ avail < Len(body)
  /\ avail' = avail + 1
  /\ UNCHANGED <<body, pos, ended, faulty, metaVars, ext, route_params,
                 cookieVars, panicked, last, hist>>

\* ------------------------------------------------------- route parameters
\* A Params table maps a name to <<>> (not bound) or <<value>>.
ParamNames == {"id", "name"}
\* "7", "x", "+7", "300"
ParamValues == {<<55>>, <<120>>, <<43, 55>>, <<51, 48, 48>>}
ParamTables == [ParamNames -> {<<>>} \cup {<<v>> : v \in ParamValues}]
MaxTables == 2
ParamKeys == ParamNames \cup {"zz"}

\* Params::find
Find(params, key) == IF key \in DOMAIN params THEN params[key] ELSE <<>>

\* <u8 as FromStr>::from_str: an optional '+', then one or more decimal
\* digits, the value at most 255.
RECURSIVE ParseDigits(_, _, _)
ParseDigits(s, i, acc) ==
  IF i > Len(s) THEN IF acc > U8Max THEN Err("PosOverflow") ELSE Ok(<<acc>>)
  ELSE IF s[i] < 48 \/ s[i] > 57 THEN Err("InvalidDigit")
  ELSE ParseDigits(s, i + 1, Min(acc * 10 + (s[i] - 48), U8Max + 1))

ParseU8(s) ==
  IF s = <<>> THEN Err("Empty")
  ELSE LET digits == IF s[1] = 43 THEN Tail(s) ELSE s
       IN  IF digits = <<>> THEN Err("InvalidDigit")
           ELSE ParseDigits(digits, 1, 0)

\* A lookup that forgets .rev(): the outermost table wins.
ParamLookupOutermost(key) ==
  LET hits == {i \in 1 .. Len(route_params) : Find(route_params[i], key) # <<>>}
  IN  IF hits = {} THEN <<>>
      ELSE Find(route_params[CHOOSE i \in hits : \A j \in hits : i <= j], key)

\* lines 173-177: .iter().rev().filter_map(|params| params.find(key)).next()
ParamLookup(key) ==
  LET hits == {i \in 1 .. Len(route_params) : Find(route_params[i], key) # <<>>}
  IN  IF hits = {} THEN <<>>
      ELSE Find(route_params[CHOOSE i \in hits : \A j \in hits : j <= i], key)

\* A lookup that reports the missing name as an error value.
ParamResultNoPanic(found) ==
  IF found = <<>> THEN Err("NotFound") ELSE ParseU8(found[1])

\* lines 178-179: .unwrap().parse(), with T = u8
ParamResult(found) ==
  IF found = <<>> THEN Panic("called Option::unwrap() on a None value")
  ELSE ParseU8(found[1])

Param ==
  /\ Alive
  /\ \E key \in ParamKeys :
       Return(Call("param", key, 0, pos, ParamResult(ParamLookup(key))))
  /\ UNCHANGED <<streamVars, metaVars, ext, route_params, cookieVars, hist>>

\* ---------------------------------------------------------- extension map
\* http::Extensions: entries keyed by the type of the value.
LocalTypes == {"A", "B"}
LocalVals == {1, 2}
CookieDataType == "CookieData"
Entries == (LocalTypes \X LocalVals) \cup {<<CookieDataType, 0>>}
Types == {e[1] : e \in Entries}

\* Extensions::get
ExtGet(T) ==
  IF \E e \in ext : e[1] = T
    THEN Ok((CHOOSE e \in ext : e[1] = T)[2])
  ELSE NoneRes

\* An insert that adds the entry beside the one already there.
ExtInsertAdds(T, v) == ext \cup {<<T, v>>}

\* Extensions::insert
ExtInsert(T, v) == {e \in ext : e[1] # T} \cup {<<T, v>>}

\* lines 141-143
Local ==
  /\ Alive
  /\ \E T \in Types : Return(Call("local", T, 0, pos, ExtGet(T)))
  /\ UNCHANGED <<streamVars, metaVars, ext, route_params, cookieVars, hist>>

\* lines 146-149
SetLocal ==
  /\ Alive
  /\ \E e \in Entries :
       /\ ext' = ExtInsert(e[1], e[2])
       /\ Return(Call("set_local", e[1], e[2], pos, NoneRes))
       /\ hist' = [hist EXCEPT
             !.lastSet[e[1]] = Ok(e[2]),
             !.replaced = IF ExtGet(e[1]) \notin {NoneRes, Ok(e[2])}
                            THEN @ \cup {e[1]} ELSE @]
  /\ UNCHANGED <<streamVars, metaVars, route_params, cookieVars>>

\* ------------------------------------------------------------------ cookies
CookieNames == {"sid", "theme"}
JarInit == [c \in CookieNames |-> IF c = "sid" THEN <<7>> ELSE <<>>]

\* lines 300-302: local::<CookieData>().expect(..).  The other requests
\* that share the jar passed through the cookies middleware.
HasCookieData(r) == IF r = 1 THEN ExtGet(CookieDataType).tag = "Ok" ELSE TRUE

\* An exclusive lock in place of the read lock.
ReadGrantedExclusive(held) == held = {}

\* line 304: RwLock::read grants a read guard whatever read guards are out;
\* nothing in this file takes the write lock.
ReadGranted(held) == held \subseteq Reqs

\* line 305: locked_jar.get(name).cloned()
JarGet(name) == jar[name]
JarAfterGet(name) == jar

\* lines 299-304: cookie(name) up to the read guard
CookieLock(r) ==
  /\ cookieCall[r] = ""
  /\ r = 1 => ~panicked
  /\ \E name \in CookieNames :
       IF HasCookieData(r)
         THEN /\ ReadGranted(readers)
              /\ readers' = readers \cup {r}
              /\ cookieCall' = [cookieCall EXCEPT ![r] = name]
              /\ UNCHANGED <<panicked, last>>
         ELSE /\ Return(Call("cookie", name, r, pos,
                     Panic("should always be set by the cookies middleware")))
              /\ UNCHANGED <<readers, cookieCall>>
  /\ UNCHANGED <<streamVars, metaVars, ext, route_params, jar, hist>>

\* lines 305-306: the lookup, the return, the guard dropped
CookieGet(r) ==
  /\ cookieCall[r] # ""
  /\ r \in readers
  /\ last' = Call("cookie", cookieCall[r], r, pos, Ok(JarGet(cookieCall[r])))
  /\ jar' = JarAfterGet(cookieCall[r])
  /\ readers' = readers \ {r}
  /\ cookieCall' = [cookieCall EXCEPT ![r] = ""]
  /\ UNCHANGED <<streamVars, metaVars, ext, route_params, panicked, hist>>

\* ----------------------------------------------------------------- metadata
HeaderNames == {"x-a", "x-b"}
\* "a", "b" and the single byte 0xFF (a legal header value, not ASCII)
HeaderValueLists ==
  {<<>>, <<<<97>>>>, <<<<97>>, <<98>>>>, <<<<255>>>>, <<<<98>>, <<255>>>>}
\* None, Some(""), Some("a=1"), Some("b=1"), Some("a=1&a=1")
UriQueries ==
  {<<>>, <<<<>>>>, <<<<97, 61, 49>>>>, <<<<98, 61, 49>>>>,
   <<<<97, 61, 49, 38, 97, 61, 49>>>>}

\* HeaderValue::to_str: Ok when every byte is visible ASCII or a tab
ToStrOk(v) == \A i \in 1 .. Len(v) : v[i] = 9 \/ (v[i] >= 32 /\ v[i] < 127)

\* line 137: headers().get(key).map(|h| h.to_str().unwrap())
HeaderResult(key) ==
  LET vs == headers[key]
  IN  IF vs = <<>> THEN NoneRes
      ELSE IF ToStrOk(vs[1]) THEN Ok(vs[1])
      ELSE Panic("called Result::unwrap() on an Err value: ToStrError")

\* line 274: self.uri().query().unwrap_or("")
QueryString == IF uri_query = <<>> THEN <<>> ELSE uri_query[1]

\* A query that unwraps the query component.
QueryResultUnwraps(T) ==
  IF uri_query = <<>> THEN Panic("called Option::unwrap() on a None value")
  ELSE LET d == QsDecode(T, uri_query[1])
       IN  IF d.tag = "Ok" THEN d ELSE Res("Err", d.kind, <<400>>)

\* lines 275-280: the decode error becomes Response::new(400) with the
\* error's text as body, wrapped in crate::Error
QueryResult(T) ==
  LET d == QsDecode(T, QueryString)
  IN  IF d.tag = "Ok" THEN d ELSE Res("Err", d.kind, <<400>>)

Accessor(c) ==
  /\ Alive
  /\ Return(c)
  /\ UNCHANGED <<streamVars, metaVars, ext, route_params, cookieVars, hist>>

Method  == Accessor(Call("method", "", 0, pos, Ok(method)))
Uri     == Accessor(Call("uri", "", 0, pos, Ok(uri_query)))
Version == Accessor(Call("version", "", 0, pos, Ok(version)))
Headers == Accessor(Call("headers", "", 0, pos, Ok(headers)))
Header  == \E key \in HeaderNames :
             Accessor(Call("header", key, 0, pos, HeaderResult(key)))
Query   == \E T \in FormTypes :
             Accessor(Call("query", T, 0, pos, QueryResult(T)))

\* ------------------------------------------------------------ specifications
\* The history kept for stating properties:
\*   nBytes, nHelpers  body_bytes calls / body_* calls returned so far (2 = two or more)
\*   delivered         the bytes poll_read and body_bytes have returned, in call order
\*   decoderUsed       body_string, body_json or body_form has been called
\*   decodeFailed      one of them returned a decode error
\*   ioFailed          a read returned an I/O error
\*   drainFailed       a body_* call returned an I/O error
\*   lastSet           per type, the value of the last set_local
\*   replaced          the types whose value a set_local replaced by another
Hist0 ==
  [nBytes |-> 0, nHelpers |-> 0, delivered |-> <<>>, decoderUsed |-> FALSE,
   decodeFailed |-> FALSE, ioFailed |-> FALSE, drainFailed |-> FALSE,
   lastSet |-> [T \in Types |-> NoneRes], replaced |-> {}]

NoHeaders == [h \in HeaderNames |-> <<>>]

\* Request::new (lines 31-41) and what it is built from
InitWith(B, f, m, v, q, h, rp) ==
  /\ body = B /\ avail = 0 /\ pos = 0 /\ ended = FALSE /\ faulty = f
  /\ method = m /\ version = v /\ uri_query = q /\ headers = h
  /\ ext = {}
  /\ route_params = rp
  /\ jar = JarInit /\ readers = {} /\ cookieCall = [r \in Reqs |-> ""]
  /\ panicked = FALSE
  /\ last = NoCall
  /\ hist = Hist0

\* The body: any body, on a sound or a faulty stream.
InitBody ==
  \E B \in Bodies, f \in BOOLEAN :
    InitWith(B, f, "POST", "HTTP/1.1", <<>>, NoHeaders, <<>>)
NextBody ==
  Arrive \/ PollRead \/ BodyBytes \/ BodyString \/ BodyJson \/ BodyForm
SpecBody == InitBody /\ [][NextBody]_vars

\* Route parameters: any list of up to MaxTables tables.
InitParam ==
  \E rp \in SeqsUpTo(ParamTables, MaxTables) :
    InitWith(<<>>, FALSE, "GET", "HTTP/1.1", <<>>, NoHeaders, rp)
NextParam == Param
SpecParam == InitParam /\ [][NextParam]_vars

\* Locals and cookies, on requests that share one jar.
IdTables == {t \in ParamTables : t["name"] = <<>> /\ t["id"] \in {<<>>, <<<<55>>>>}}
InitLocal ==
  \E rp \in SeqsUpTo(IdTables, MaxTables) :
    InitWith(<<>>, FALSE, "GET", "HTTP/1.1", <<>>, NoHeaders, rp)
NextLocal ==
  \/ SetLocal
  \/ Local
  \/ Param
  \/ \E r \in Reqs : CookieLock(r)
  \/ \E r \in Reqs : CookieGet(r)
SpecLocal == InitLocal /\ [][NextLocal]_vars

\* Metadata and the query string.
InitMeta ==
  \E m \in {"GET", "POST"}, v \in {"HTTP/1.0", "HTTP/1.1"},
     q \in UriQueries, h \in [HeaderNames -> HeaderValueLists] :
    InitWith(<<>>, FALSE, m, v, q, h, <<>>)
NextMeta == Method \/ Uri \/ Version \/ Headers \/ Header \/ Query
SpecMeta == InitMeta /\ [][NextMeta]_vars

\* ================================================================== claims

\* What a body_* call returns when the stream had been drained before it.
OnDrained(op, arg) ==
  CASE op = "body_bytes"  -> Ok(<<>>)
    [] op = "body_string" -> Ok(<<>>)
    [] op = "body_json"   -> Err("InvalidData")
    [] op = "body_form"   -> IF arg = "FormReq"
                               THEN Err("Other: could not decode form")
                               ELSE Ok(<<>>)

Unread(from) == SubSeq(body, from + 1, Len(body))

\* C1, as stated: on a stream that reads without I/O error the first
\* body_bytes() call returns exactly the body B (and the later ones the empty
\* sequence).
C1_FirstBodyBytesIsWholeBody ==
  (~hist.ioFailed /\ last.op = "body_bytes")
    => /\ hist.nBytes = 1 => last.res = Ok(body)
       /\ hist.nBytes = 2 => last.res = Ok(<<>>)

\* C1, amended: on a stream that reads without I/O error the first
\* body_bytes() call returns the bytes of B that no earlier read has taken
\* (all of B when it is the first read of the body); every later
\* body_bytes() call returns the empty sequence as a success value, and is
\* never blocked: it can return at once.
C1_BodyBytesThenEmpty ==
  /\ (~hist.ioFailed /\ last.op = "body_bytes")
       => /\ last.res = Ok(Unread(last.from))
          /\ last.from = 0 => last.res = Ok(body)
          /\ hist.nBytes = 2 => last.res = Ok(<<>>)
  /\ (~hist.ioFailed /\ hist.nBytes >= 1) => ENABLED BodyBytes

C1_Witness ==
  /\ ~hist.ioFailed /\ last.op = "body_bytes" /\ hist.nBytes = 2
  /\ ~hist.decoderUsed /\ hist.delivered = body /\ Len(body) = MaxLen
  /\ last.res = Ok(<<>>)

\* C2, as stated: of two calls taken from body_bytes, body_string, body_json
\* and body_form on one request, the first that completes drains the stream
\* and every later one yields an empty result rather than an error.
C2_LaterCallsYieldEmpty ==
  /\ (~hist.drainFailed /\ hist.nHelpers >= 1) => pos = Len(body)
  /\ (~hist.drainFailed /\ last.op \in Helpers /\ hist.nHelpers = 2)
       => last.res = Ok(<<>>)

\* C2, amended: as long as no call fails with an I/O error, the first call
\* that completes drains the stream and every later call works on the empty
\* byte sequence: body_bytes and body_string return an empty value,
\* body_form returns the decoding of the empty form (an error when the
\* target type has a required field) and body_json returns an InvalidData
\* error, the empty input being no JSON value.
C2_LaterCallsSeeEmptyBody ==
  /\ (~hist.drainFailed /\ hist.nHelpers >= 1) => (pos = Len(body) /\ ended)
  /\ (~hist.drainFailed /\ last.op \in Helpers /\ hist.nHelpers = 2)
       => last.res = OnDrained(last.op, last.arg)

C2_Witness ==
  /\ ~hist.drainFailed /\ hist.nHelpers = 2 /\ hist.nBytes = 1
  /\ last.op = "body_json" /\ last.res = Err("InvalidData")
  /\ ParseJsonU8(body).tag = "Ok"

C10_DecodeFailureConsumesBody ==
  /\ hist.decodeFailed => (pos = Len(body) /\ ended)
  /\ (hist.decodeFailed /\ last.op = "body_bytes") => last.res = Ok(<<>>)
  /\ (hist.decodeFailed /\ last.op = "poll_read") => last.res = Ok(<<>>)

C10_Witness ==
  /\ hist.decodeFailed /\ last.op = "body_bytes" /\ last.res = Ok(<<>>)
  /\ Len(body) = MaxLen /\ ~ValidUtf8(body) /\ hist.nHelpers = 2

Binds(i, key) == Find(route_params[i], key) # <<>>
BoundSomewhere(key) == \E i \in 1 .. Len(route_params) : Binds(i, key)

\* C3: param(name), for a name bound in at least one table, uses the value
\* of the innermost (last pushed) table that binds it: it returns the parse
\* of that string, Ok or a returned Err, never a panic and never an outer
\* table's value.
C3_ParamInnermostWins ==
  (last.op = "param" /\ BoundSomewhere(last.arg))
    => \E i \in 1 .. Len(route_params) :
         /\ Binds(i, last.arg)
         /\ \A j \in (i + 1) .. Len(route_params) : ~Binds(j, last.arg)
         /\ last.res = ParseU8(route_params[i][last.arg][1])
         /\ last.res.tag \in {"Ok", "Err"}
         /\ ~panicked

\* The inner table binds the name to "x", the outer one to "7".
C3_Witness ==
  /\ last.op = "param" /\ last.arg = "id" /\ Len(route_params) = MaxTables
  /\ route_params[1]["id"] = <<<<55>>>>
  /\ route_params[Len(route_params)]["id"] = <<<<120>>>>
  /\ last.res = Err("InvalidDigit")

\* C4: param(name) with a name that no table binds, and cookie(name) on a
\* request whose extension map holds no CookieData entry, panic: they never
\* return Err, None or a default.
C4_ConfigurationErrorsPanic ==
  /\ (last.op = "param" /\ ~BoundSomewhere(last.arg))
       => (last.res.tag = "Panic" /\ panicked)
  /\ (last.op = "cookie" /\ last.n = 1 /\ ExtGet(CookieDataType) = NoneRes)
       => (last.res.tag = "Panic" /\ panicked)

C4_Witness ==
  /\ last.op = "cookie" /\ last.n = 1 /\ last.res.tag = "Panic" /\ panicked
  /\ ext # {} /\ ExtGet(CookieDataType) = NoneRes

\* C5: after any sequence of set_local calls the extension map holds at most
\* one value per type, and local<T>() returns the value of the most recent
\* set_local<T>, or None if there was none.
C5_LocalIsLastSet ==
  /\ \A T \in Types : Cardinality({e \in ext : e[1] = T}) <= 1
  /\ \A T \in Types : ExtGet(T) = hist.lastSet[T]
  /\ last.op = "local" => last.res = hist.lastSet[last.arg]

C5_Witness ==
  /\ last.op = "local" /\ last.arg \in hist.replaced
  /\ last.res.tag = "Ok" /\ last.res = hist.lastSet[last.arg]

\* C6: with the CookieData entry present, cookie(name) calls running
\* concurrently on requests that share one jar never panic and never block
\* one another: a call can always take its read guard and a call that holds
\* one can always return; each returns a copy of the named cookie, or None
\* when the jar has none; the jar is left as it was.
C6_ConcurrentCookieReads ==
  /\ (last.op = "cookie" /\ HasCookieData(last.n))
       => last.res = Ok(JarInit[last.arg])
  /\ jar = JarInit
  /\ readers = {r \in Reqs : cookieCall[r] # ""}
  /\ \A r \in Reqs :
       /\ (cookieCall[r] = "" /\ HasCookieData(r) /\ (r = 1 => ~panicked))
            => ENABLED CookieLock(r)
       /\ cookieCall[r] # "" => ENABLED CookieGet(r)

\* Every request holds a read guard, one call has just returned the cookie.
C6_Witness ==
  /\ Cardinality(readers) = NReqs - 1 /\ 1 \notin readers
  /\ last.op = "cookie" /\ last.n = 1 /\ last.arg = "sid" /\ last.res = Ok(<<7>>)

\* What decoding the empty query string gives.
EmptyQueryResult(T) ==
  IF T = "FormOpt" THEN Ok(<<>>) ELSE Res("Err", "missing field a", <<400>>)

\* C7: query<T>() decodes a URI without a query component as it decodes the
\* empty query string, so a type whose fields are all optional decodes with
\* every field absent; a decode failure is returned, not a panic, as an
\* error wrapping a response of status 400 whose body is the decode error's
\* text; the request is left as it was.
C7_QueryDefaultsToEmpty ==
  /\ [](last.op = "query"
          => /\ ~panicked
             /\ last.res.tag \in {"Ok", "Err"}
             /\ uri_query \in {<<>>, <<<<>>>>}
                  => last.res = EmptyQueryResult(last.arg)
             /\ last.res.tag = "Err"
                  => /\ last.res.val = <<400>>
                     /\ last.res.kind = QsDecode(last.arg, QueryString).kind
             /\ last.res.tag = "Ok"
                  => last.res = QsDecode(last.arg, QueryString))
  /\ [][Query => UNCHANGED <<streamVars, metaVars, ext, route_params,
                              cookieVars>>]_vars

C7_Witness ==
  /\ last.op = "query" /\ uri_query = <<>>
  /\ last.arg = "FormOpt" /\ last.res = Ok(<<>>)

Accessors == {"method", "uri", "version", "headers", "header"}

\* C8: method(), uri(), version(), headers() and header(name) never fail: in
\* every request state and for every stored header value each returns a
\* value, header(name) the first value for the name or None.
C8_AccessorsNeverFail ==
  last.op \in Accessors
    => /\ last.res.tag \in {"Ok", "None"}
       /\ ~panicked
       /\ last.op = "header"
            => last.res = IF headers[last.arg] = <<>> THEN NoneRes
                          ELSE Ok(headers[last.arg][1])

====
